---------------------------- MODULE Spec2Model ----------------------------
(***************************************************************************)
(* Model of the tapas quasi-random generators: the incremental Halton      *)
(* generator (src/src/rng/halton.rs) and the round-robin Interleave        *)
(* (src/src/rng/mod.rs).                                                   *)
(*                                                                         *)
(* f64 values are modelled as exact non-negative rationals <<n, d>> in     *)
(* lowest terms; the rounding of the machine arithmetic is not modelled,   *)
(* so "within 2 * EPSILON" is checked as equality of exact values.         *)
(***************************************************************************)
EXTENDS Integers, Sequences, FiniteSets, TLC

\* ------------------------------------------------------------------ bounds
\* start indices given to Halton::new are drawn from 0..MaxStart
MaxStart == 5
\* bases given to Halton::new are drawn from 0..MaxBase
MaxBase == 4
\* at most MaxAdvance calls of advance are made on one generator
MaxAdvance == 9
\* skip is called with a size in 0..MaxSkip
MaxSkip == 2
\* runs of at most MaxWindow consecutive advance calls are counted
MaxWindow == 9
\* an Interleave is built from 0..MaxGens generators
MaxGens == 3
\* at most MaxCalls calls are made on one Interleave
MaxCalls == 7
\* at most MaxCallerCalls calls are made on the generators the caller kept
MaxCallerCalls == 1

\* ------------------------------------------------------------ f64 values
RECURSIVE GCD(_, _)
GCD(a, b) == IF b = 0 THEN a ELSE GCD(b, a % b)

\* the value n/d
Rat(n, d) == LET g == GCD(n, d) IN <<n \div g, d \div g>>

\* `x as f64` for a u32 x
F64(x) == <<x, 1>>

\* x + y
FAdd(x, y) == Rat(x[1] * y[2] + y[1] * x[2], x[2] * y[2])

\* x * y
FMul(x, y) == Rat(x[1] * y[1], x[2] * y[2])

\* x / y, y > 0
FDiv(x, y) == Rat(x[1] * y[2], x[2] * y[1])

\* x < y
FLt(x, y) == x[1] * y[2] < y[1] * x[2]

Zero == F64(0)
One == F64(1)

\* ----------------------------------------------------------- build modes
\* debug_assert! is compiled in only when debug assertions are on
Builds == [debug_assertions : BOOLEAN]

\* ------------------------------------------------------------ Halton::new
\* `1_000_000f64.log(b as f64).ceil() as usize` followed by
\* Vec::with_capacity(size).  ln(0) = -inf gives size 0, ln(b) > 0 gives a
\* small size, ln(1) = 0 gives +inf, whose cast to usize saturates to
\* usize::MAX (the cast is undefined on toolchains before 1.45, where any
\* usize may result): the set of outcomes of the two allocations.
with_capacity(b) ==
    IF b = 1 THEN {"capacity overflow", "allocated"} ELSE {"allocated"}

\* (as it would be without the last digits.push(i))
RECURSIVE to_digits_without_last(_, _, _)
to_digits_without_last(digits, i, b) ==
    IF i >= b THEN to_digits_without_last(Append(digits, i % b), i \div b, b)
    ELSE digits

\* the loop `while i >= b { digits.push(i % b); i = i / b }; digits.push(i)`
RECURSIVE to_digits(_, _, _)
to_digits(digits, i, b) ==
    IF i >= b THEN to_digits(Append(digits, i % b), i \div b, b)
    ELSE Append(digits, i)

\* (as it would be with the test remainders.len() <= digits.len())
RECURSIVE to_remainders_one_more(_, _, _, _)
to_remainders_one_more(remainders, digits, k, base) ==
    IF k >= Len(digits) THEN remainders
    ELSE LET d == digits[Len(digits) - k]
             last == remainders[Len(remainders)]
         IN  to_remainders_one_more(
                 IF Len(remainders) <= Len(digits)
                 THEN Append(remainders, FDiv(FAdd(F64(d), last), base))
                 ELSE remainders,
                 digits, k + 1, base)

\* the loop over digits.iter().rev() that fills the remainders; k counts the
\* digits already visited, most significant first
RECURSIVE to_remainders(_, _, _, _)
to_remainders(remainders, digits, k, base) ==
    IF k >= Len(digits) THEN remainders
    ELSE LET d == digits[Len(digits) - k]
             last == remainders[Len(remainders)]
         IN  to_remainders(
                 IF Len(remainders) < Len(digits)
                 THEN Append(remainders, FDiv(FAdd(F64(d), last), base))
                 ELSE remainders,
                 digits, k + 1, base)

\* the 0-based index kept in the digits: `if i < 1 {0} else {i-1}`
\* (as it would be without the decrement)
start_not_decremented(i) == IF i < 1 THEN 0 ELSE i
start(i) == IF i < 1 THEN 0 ELSE i - 1

\* `if b < 2 {2} else {b}`
sensible_base(b) == IF b < 2 THEN 2 ELSE b

\* the generator Halton::new(i, b) returns when its allocations succeed
Halton_new(i, b) ==
    LET bb == sensible_base(b)
        digits == to_digits(<<>>, start(i), bb)
    IN  [base |-> bb,
         rem |-> to_remainders(<<Zero>>, digits, 0, F64(bb)),
         dig |-> digits,
         state |-> Zero]


\* --------------------------------------------------------- Halton::advance
\* the carry loop `while i < dig.len() && dig[i] == base-1 { dig[i] = 0; i += 1 }`
\* (i is the 0-based position of the source); yields the digits and the final i
\* (as it would be if the overflowed digits were not reset)
RECURSIVE carry_without_reset(_, _, _)
carry_without_reset(dig, i, base) ==
    IF i < Len(dig) /\ dig[i + 1] = base - 1
    THEN carry_without_reset(dig, i + 1, base)
    ELSE [dig |-> dig, i |-> i]

\* (as it would be if the carry stopped after the first digit)
carry_one_digit(dig, i, base) ==
    IF i < Len(dig) /\ dig[i + 1] = base - 1
    THEN [dig |-> [dig EXCEPT ![i + 1] = 0], i |-> i + 1]
    ELSE [dig |-> dig, i |-> i]

RECURSIVE carry(_, _, _)
carry(dig, i, base) ==
    IF i < Len(dig) /\ dig[i + 1] = base - 1
    THEN carry([dig EXCEPT ![i + 1] = 0], i + 1, base)
    ELSE [dig |-> dig, i |-> i]

\* the loop `for j in lo..hi { rem[j+1] = rem[j] / b }` (0-based j)
\* (as it would be if the remainders above the changed one were left stale)
propagate_skipped(rem, j, hi, b) == rem

RECURSIVE propagate(_, _, _, _)
propagate(rem, j, hi, b) ==
    IF j < hi
    THEN propagate([rem EXCEPT ![j + 2] = FDiv(rem[j + 1], b)], j + 1, hi, b)
    ELSE rem

\* (as it would be with the bounds check i + 1 < dig.len())
advance_carry_early_growth(g) ==
    LET c == carry(g.dig, 0, g.base)
        i == c.i
        grown == ~(i + 1 < Len(c.dig))
        dig == IF grown THEN Append(c.dig, 1)
               ELSE [c.dig EXCEPT ![i + 1] = @ + 1]
        rem0 == IF grown THEN Append(g.rem, Zero) ELSE g.rem
        len == Len(rem0)
        b == F64(g.base)
        rem1 == [rem0 EXCEPT ![len - i + 1] =
                    FDiv(FAdd(F64(dig[i + 1]), rem0[len - i]), b)]
        rem2 == IF i >= 2 THEN propagate(rem1, len - i, len - 1, b) ELSE rem1
    IN  [base |-> g.base, rem |-> rem2, dig |-> dig,
         state |-> FDiv(rem2[Len(rem2)], b)]

\* the branch taken when dig[0] == base - 1
advance_carry(g) ==
    LET c == carry(g.dig, 0, g.base)
        i == c.i
        grown == ~(i < Len(c.dig))
        dig == IF grown THEN Append(c.dig, 1)
               ELSE [c.dig EXCEPT ![i + 1] = @ + 1]
        rem0 == IF grown THEN Append(g.rem, Zero) ELSE g.rem
        len == Len(rem0)
        b == F64(g.base)
        rem1 == [rem0 EXCEPT ![len - i + 1] =
                    FDiv(FAdd(F64(dig[i + 1]), rem0[len - i]), b)]
        rem2 == IF i >= 2 THEN propagate(rem1, len - i, len - 1, b) ELSE rem1
    IN  [base |-> g.base, rem |-> rem2, dig |-> dig,
         state |-> FDiv(rem2[Len(rem2)], b)]

\* (as it would be if the incremented digit were not stored)
advance_plain_digit_not_stored(g) ==
    [base |-> g.base, rem |-> g.rem, dig |-> g.dig,
     state |-> FDiv(FAdd(F64(g.dig[1] + 1), g.rem[Len(g.rem)]), F64(g.base))]

\* (as it would be if the new state were also written to the top remainder)
advance_plain_writes_remainder(g) ==
    LET dig == [g.dig EXCEPT ![1] = @ + 1]
        state == FDiv(FAdd(F64(dig[1]), g.rem[Len(g.rem)]), F64(g.base))
    IN  [base |-> g.base, rem |-> [g.rem EXCEPT ![Len(g.rem)] = state],
         dig |-> dig, state |-> state]

\* the branch taken otherwise
advance_plain(g) ==
    LET dig == [g.dig EXCEPT ![1] = @ + 1]
    IN  [base |-> g.base, rem |-> g.rem, dig |-> dig,
         state |-> FDiv(FAdd(F64(dig[1]), g.rem[Len(g.rem)]), F64(g.base))]

\* (as it would be if the carry were taken at dig[0] == base)
advance_late_carry(g) ==
    IF g.dig[1] = g.base THEN advance_carry(g) ELSE advance_plain(g)

\* Halton::advance on a generator on which it does not panic
advance(g) ==
    IF g.dig[1] = g.base - 1 THEN advance_carry(g) ELSE advance_plain(g)

\* whether Halton::advance panics: a failed debug assertion, an index out of
\* bounds, a usize underflow or an unwrap of None
advance_panics(g, build) ==
    \/ build.debug_assertions /\ (Len(g.dig) = 0 \/ Len(g.rem) = 0)
    \/ Len(g.dig) = 0
    \/ Len(g.rem) = 0
    \/ /\ g.dig[1] = g.base - 1
       /\ LET c == carry(g.dig, 0, g.base)
              len == IF c.i < Len(c.dig) THEN Len(g.rem) ELSE Len(g.rem) + 1
          IN  \/ len - c.i - 1 < 0
              \/ len - c.i >= len

\* Halton::skip: `for _ in 0..size { self.advance() }`
\* (as it would be with the inclusive range 0..=size)
RECURSIVE skip_inclusive(_, _)
skip_inclusive(g, size) ==
    IF size = 0 THEN advance(g) ELSE skip_inclusive(advance(g), size - 1)

RECURSIVE skip(_, _)
skip(g, size) == IF size = 0 THEN g ELSE skip(advance(g), size - 1)

\* whether one of the advance calls of skip(size) panics
RECURSIVE skip_panics(_, _, _)
skip_panics(g, size, build) ==
    /\ size > 0
    /\ \/ advance_panics(g, build)
       \/ skip_panics(advance(g), size - 1, build)

\* ------------------------------------------------- typed sampling, Iterator
\* integers above 2^31 are written in limbs of 16 bits, most significant first
Limb == 65536

\* the first k limbs of the binary expansion of the fraction r/d, and what is
\* left: [limbs |-> floor(r/d * Limb^k), r |-> the remainder]
RECURSIVE expand(_, _, _, _)
expand(limbs, r, d, k) ==
    IF k = 0 THEN [limbs |-> limbs, r |-> r]
    ELSE expand(Append(limbs, (r * Limb) \div d), (r * Limb) % d, d, k - 1)

\* a two-limb integer minus one
pred(w) == IF w[2] > 0 THEN <<w[1], w[2] - 1>> ELSE <<w[1] - 1, Limb - 1>>

\* `(x * u64::max_value() as f64).floor() as u64` for 0 <= x < 1:
\* u64::MAX as f64 is 2^64, so the result is floor(x * 2^64), four limbs
to_u64(x) == expand(<<>>, x[1], x[2], 4).limbs

\* `(x * u32::max_value() as f64).floor() as u32` for 0 <= x < 1:
\* floor(x * 2^32 - x), two limbs
to_u32(x) ==
    LET e == expand(<<>>, x[1], x[2], 2)
    IN  IF e.r >= x[1] THEN e.limbs ELSE pred(e.limbs)

\* an f32 has 24 significant bits: its mantissa m satisfies
\* F32Hidden = 2^23 <= m < F32Top = 2^24
F32Hidden == 8388608
F32Top == 16777216

\* shifts bits of the fraction r/d into the mantissa m until it has 24
\* significant bits; e counts the shifts
RECURSIVE mantissa(_, _, _, _)
mantissa(m, r, d, e) ==
    IF m >= F32Hidden THEN [m |-> m, r |-> r, e |-> e]
    ELSE IF 2 * r >= d THEN mantissa(2 * m + 1, 2 * r - d, d, e + 1)
    ELSE mantissa(2 * m, 2 * r, d, e + 1)

\* `x as f32` for 0 <= x < 1: the nearest value m * 2^-e with m < 2^24, ties
\* to even
to_f32(x) ==
    IF x[1] = 0 THEN [m |-> 0, e |-> 0]
    ELSE LET t == mantissa(0, x[1], x[2], 0)
             up == 2 * t.r > x[2] \/ (2 * t.r = x[2] /\ t.m % 2 = 1)
             m == IF up THEN t.m + 1 ELSE t.m
         IN  IF m = F32Top THEN [m |-> F32Hidden, e |-> t.e - 1]
             ELSE [m |-> m, e |-> t.e]

\* A returned value: the method that returned it and the value.
Ret(op, val) == [op |-> op, val |-> val]

\* sample_f64: advance, then self.state
sample_f64(g) == LET h == advance(g) IN [g |-> h, ret |-> h.state]

\* sample_u64: advance, then the conversion of state
sample_u64(g) == LET h == advance(g) IN [g |-> h, ret |-> to_u64(h.state)]

\* (as it would be without the call of advance)
sample_u32_without_advance(g) == [g |-> g, ret |-> to_u32(g.state)]

\* sample_u32: advance, then the conversion of state
sample_u32(g) == LET h == advance(g) IN [g |-> h, ret |-> to_u32(h.state)]

\* impl Rng for Halton
next_u32(g) == LET r == sample_u32(g) IN [g |-> r.g, ret |-> Ret("next_u32", r.ret)]

next_u64(g) == LET r == sample_u64(g) IN [g |-> r.g, ret |-> Ret("next_u64", r.ret)]

next_f32(g) ==
    LET r == sample_f64(g) IN [g |-> r.g, ret |-> Ret("next_f32", to_f32(r.ret))]

next_f64(g) == LET r == sample_f64(g) IN [g |-> r.g, ret |-> Ret("next_f64", r.ret)]

\* (as it would be if the sequence ended once it returned to a value below
\* the previous one)
Iterator_next_ending(g) ==
    LET h == advance(g)
    IN  [g |-> h,
         ret |-> Ret("next", IF FLt(h.state, g.state) THEN <<"None">>
                             ELSE <<"Some", h.state>>)]

\* impl Iterator for Halton: advance, then Some(self.state)
Iterator_next(g) ==
    LET h == advance(g) IN [g |-> h, ret |-> Ret("next", <<"Some", h.state>>)]

\* the typed sampling methods of the Rng trait
RngMethods == {"next_u32", "next_u64", "next_f32", "next_f64"}

\* dispatch of a call of method m on generator g
call(m, g) ==
    CASE m = "next_u32" -> next_u32(g)
      [] m = "next_u64" -> next_u64(g)
      [] m = "next_f32" -> next_f32(g)
      [] m = "next_f64" -> next_f64(g)
      [] m = "next"     -> Iterator_next(g)


\* ----------------------------------------------------------- Interleave
\* Interleave::new: the debug assertion, then generators.to_vec() and 0
Interleave_new_panics(generators, build) ==
    build.debug_assertions /\ ~(Len(generators) > 0)

Interleave_new(generators) == [generators |-> generators, current |-> 0]

\* interleave_next!: whether the call panics (index out of bounds at
\* generators[current], a panic of the generator, a remainder by zero)
interleave_next_panics(s, build) ==
    \/ ~(s.current < Len(s.generators))
    \/ advance_panics(s.generators[s.current + 1], build)
    \/ Len(s.generators) = 0

\* (as it would be if current were not stepped)
interleave_next_same_generator(s, func) ==
    LET r == call(func, s.generators[s.current + 1])
    IN  [s |-> [generators |-> [s.generators EXCEPT ![s.current + 1] = r.g],
                current |-> s.current % Len(s.generators)],
         ret |-> r.ret]

\* (as it would be if current were stepped without the remainder)
interleave_next_without_wrap(s, func) ==
    LET r == call(func, s.generators[s.current + 1])
    IN  [s |-> [generators |-> [s.generators EXCEPT ![s.current + 1] = r.g],
                current |-> s.current + 1],
         ret |-> r.ret]

\* (as it would be if $func were called on every generator)
interleave_next_every_generator(s, func) ==
    LET r == call(func, s.generators[s.current + 1])
    IN  [s |-> [generators |-> [k \in 1..Len(s.generators) |->
                                   call(func, s.generators[k]).g],
                current |-> (s.current + 1) % Len(s.generators)],
         ret |-> r.ret]

\* interleave_next!($func): call $func on generators[current], step current
interleave_next(s, func) ==
    LET r == call(func, s.generators[s.current + 1])
    IN  [s |-> [generators |-> [s.generators EXCEPT ![s.current + 1] = r.g],
                current |-> (s.current + 1) % Len(s.generators)],
         ret |-> r.ret]

\* ------------------------------------------------------------------ state
VARIABLES
    build,      \* how the crate was compiled
    args,       \* the arguments [i, b] given to Halton::new
    status,     \* "ok", or "panic" once a call has panicked
    gen,        \* the Halton generator: [base, rem, dig, state]
    out,        \* what the last sampling or iterator call returned
    pulls,      \* number of sampling and iterator calls made
    skipped,    \* sum of the sizes given to skip
    ilArgs,     \* the <<i, b>> of the generators given to Interleave::new
    ilStatus,   \* "ok", or "panic"
    il,         \* the Interleave: [generators, current]
    ilOut,      \* what the last call on the Interleave returned
    ilCalls,    \* number of calls made on the Interleave
    origs,      \* the generators of the caller, of which new took copies
    origCalls   \* number of calls the caller made on its own generators

hvars == <<args, status, gen, out, pulls, skipped>>
ilvars == <<ilArgs, ilStatus, il, ilOut, ilCalls, origs, origCalls>>
vars == <<build, args, status, gen, out, pulls, skipped,
          ilArgs, ilStatus, il, ilOut, ilCalls, origs, origCalls>>

NoGen == [base |-> 0, rem |-> <<>>, dig |-> <<>>, state |-> Zero]
NoRet == Ret("none", <<>>)
NoIL == [generators |-> <<>>, current |-> 0]

\* no Halton generator under test
HaltonIdle ==
    /\ args = [i |-> 0, b |-> 0]
    /\ status = "none"
    /\ gen = NoGen
    /\ out = NoRet
    /\ pulls = 0
    /\ skipped = 0

\* no Interleave under test
InterleaveIdle ==
    /\ ilArgs = <<>>
    /\ ilStatus = "none"
    /\ il = NoIL
    /\ ilOut = NoRet
    /\ ilCalls = 0
    /\ origs = <<>>
    /\ origCalls = 0

\* ------------------------------------------------- a Halton generator in use
\* the state after `Halton::new(i, b)`
Init ==
    /\ build \in Builds
    /\ \E i \in 0..MaxStart, b \in 0..MaxBase :
          /\ args = [i |-> i, b |-> b]
          /\ \E alloc \in with_capacity(b) :
                IF alloc = "allocated"
                THEN status = "ok" /\ gen = Halton_new(i, b)
                ELSE status = "panic" /\ gen = NoGen
    /\ out = NoRet
    /\ pulls = 0
    /\ skipped = 0
    /\ InterleaveIdle

\* a call of the method m of the generator
Pull(m) ==
    /\ status = "ok"
    /\ pulls + skipped < MaxAdvance
    /\ IF advance_panics(gen, build)
       THEN status' = "panic" /\ UNCHANGED <<gen, out, pulls>>
       ELSE LET r == call(m, gen)
            IN  /\ gen' = r.g
                /\ out' = r.ret
                /\ pulls' = pulls + 1
                /\ UNCHANGED status
    /\ UNCHANGED <<build, args, skipped, ilvars>>

NextU32 == Pull("next_u32")
NextU64 == Pull("next_u64")
NextF32 == Pull("next_f32")
NextF64 == Pull("next_f64")
IterNext == Pull("next")

\* a call of skip(size)
Skip ==
    /\ status = "ok"
    /\ \E size \in 0..MaxSkip :
          /\ pulls + skipped + size <= MaxAdvance
          /\ IF skip_panics(gen, size, build)
             THEN status' = "panic" /\ UNCHANGED <<gen, skipped>>
             ELSE /\ gen' = skip(gen, size)
                  /\ skipped' = skipped + size
                  /\ UNCHANGED status
    /\ UNCHANGED <<build, args, out, pulls, ilvars>>

Next ==
    \/ NextU32
    \/ NextU64
    \/ NextF32
    \/ NextF64
    \/ IterNext
    \/ Skip

Spec == Init /\ [][Next]_vars

\* ----------------------------------------------------- an Interleave in use
\* the generators an Interleave is built from: Halton::new(1, 2) and
\* Halton::new(1, 3) as in test::interleave_wrap, and Halton::new(2, 2)
Seeds == {[i |-> 1, b |-> 2], [i |-> 1, b |-> 3], [i |-> 2, b |-> 2]}

RECURSIVE SeqsUpTo(_, _)
SeqsUpTo(S, n) ==
    IF n = 0 THEN {<<>>}
    ELSE LET shorter == SeqsUpTo(S, n - 1)
         IN  shorter \cup {Append(q, x) : q \in {t \in shorter : Len(t) = n - 1}, x \in S}

\* the state after `Interleave::new(&[Halton::new(..), ..])`
InitInterleave ==
    /\ build \in Builds
    /\ HaltonIdle
    /\ ilArgs \in SeqsUpTo(Seeds, MaxGens)
    /\ LET generators == [k \in 1..Len(ilArgs) |-> Halton_new(ilArgs[k].i, ilArgs[k].b)]
       IN  /\ origs = generators
           /\ IF Interleave_new_panics(generators, build)
              THEN ilStatus = "panic" /\ il = NoIL
              ELSE ilStatus = "ok" /\ il = Interleave_new(generators)
    /\ ilOut = NoRet
    /\ ilCalls = 0
    /\ origCalls = 0

\* a call of the method func of the Interleave
Delegate(func) ==
    /\ ilStatus = "ok"
    /\ ilCalls < MaxCalls
    /\ IF interleave_next_panics(il, build)
       THEN ilStatus' = "panic" /\ UNCHANGED <<il, ilOut, ilCalls>>
       ELSE LET r == interleave_next(il, func)
            IN  /\ il' = r.s
                /\ ilOut' = r.ret
                /\ ilCalls' = ilCalls + 1
                /\ UNCHANGED ilStatus
    /\ UNCHANGED <<build, hvars, ilArgs, origs, origCalls>>

\* the caller samples one of the generators it passed to Interleave::new,
\* which borrowed the slice only for the call and kept clones
CallerSample ==
    /\ ilStatus = "ok"
    /\ origCalls < MaxCallerCalls
    /\ \E k \in 1..Len(origs), m \in RngMethods :
          /\ ~advance_panics(origs[k], build)
          /\ origs' = [origs EXCEPT ![k] = call(m, origs[k]).g]
    /\ origCalls' = origCalls + 1
    /\ UNCHANGED <<build, hvars, ilArgs, ilStatus, il, ilOut, ilCalls>>

InterleaveNextU32 == Delegate("next_u32")
InterleaveNextU64 == Delegate("next_u64")
InterleaveNextF32 == Delegate("next_f32")
InterleaveNextF64 == Delegate("next_f64")

NextInterleave ==
    \/ InterleaveNextU32
    \/ InterleaveNextU64
    \/ InterleaveNextF32
    \/ InterleaveNextF64
    \/ CallerSample

SpecInterleave == InitInterleave /\ [][NextInterleave]_vars

\* ------------------------------------------------ reference values (tests)
\* test::brute_force: the loop `while i > 0 { f /= base; r = r + f * (i % base);
\* i /= base }`
RECURSIVE brute_force_loop(_, _, _, _)
brute_force_loop(i, base, f, r) ==
    IF i > 0
    THEN LET f1 == FDiv(f, F64(base))
         IN  brute_force_loop(i \div base, base, f1, FAdd(r, FMul(f1, F64(i % base))))
    ELSE r

brute_force(index, base) ==
    brute_force_loop(IF index = 0 THEN 1 ELSE index,
                     IF base < 2 THEN 2 ELSE base, One, Zero)

\* test::compare_to_known_base_2 and compare_to_known_base_3
known_base_2 ==
    << <<1, 2>>, <<1, 4>>, <<3, 4>>, <<1, 8>>, <<5, 8>>, <<3, 8>>, <<7, 8>>,
       <<1, 16>>, <<9, 16>> >>
known_base_3 ==
    << <<1, 3>>, <<2, 3>>, <<1, 9>>, <<4, 9>>, <<7, 9>>, <<2, 9>>, <<5, 9>>,
       <<8, 9>>, <<1, 27>> >>

\* ------------------------------------------------------------------ claims
\* the constructor was given a valid index and base
ValidArgs == status = "ok" /\ args.i >= 1 /\ args.b >= 2

\* number of advance calls made so far
Advances == pulls + skipped

\* what the method op returns for the f64 x
Converted(op, x) ==
    CASE op = "next_u32" -> to_u32(x)
      [] op = "next_u64" -> to_u64(x)
      [] op = "next_f32" -> to_f32(x)
      [] op = "next_f64" -> x
      [] op = "next"     -> <<"Some", x>>

\* n successive calls of advance
RECURSIVE advance_times(_, _)
advance_times(g, n) == IF n = 0 THEN g ELSE advance(advance_times(g, n - 1))

\* C1: for every start index i >= 1 and base b >= 2, the first value sampled
\* from Halton::new(i, b) is the direct digit-expansion sum of i in base b.
C1_FirstSampleIsDigitSum ==
    (ValidArgs /\ pulls = 1 /\ skipped = 0)
        => /\ gen.state = brute_force(args.i, args.b)
           /\ out.op = "next_f64" => out.val = brute_force(args.i, args.b)

C1_Witness ==
    /\ ValidArgs /\ pulls = 1 /\ skipped = 0
    /\ out.op = "next_f64"
    /\ args.i = 5 /\ args.b = 3
    /\ out.val = <<7, 9>>

\* C2: for every start index s >= 1, base b >= 2 and k >= 1, the k-th value
\* sampled one step at a time from Halton::new(s, b) is the direct value of
\* index s + k - 1; Halton::new(1, 2) and Halton::new(1, 3) yield the known
\* sequences 1/2, 1/4, 3/4, ... and 1/3, 2/3, 1/9, ...
C2_SequentialConsistency ==
    (ValidArgs /\ pulls >= 1 /\ skipped = 0)
        => /\ gen.state = brute_force(args.i + pulls - 1, args.b)
           /\ out.op = "next_f64"
                 => out.val = brute_force(args.i + pulls - 1, args.b)
           /\ (args.i = 1 /\ args.b = 2 /\ pulls <= Len(known_base_2))
                 => gen.state = known_base_2[pulls]
           /\ (args.i = 1 /\ args.b = 3 /\ pulls <= Len(known_base_3))
                 => gen.state = known_base_3[pulls]

C2_Witness ==
    /\ ValidArgs /\ skipped = 0
    /\ args.i = 2 /\ args.b = 2
    /\ pulls = 7
    /\ out.op = "next_f64" /\ out.val = <<1, 16>>

C6_NewNormalisesSilently ==
    Advances = 0
        => /\ status = "ok"
           /\ args.i < 1 => gen = Halton_new(1, args.b)
           /\ args.b < 2 => gen = Halton_new(args.i, 2)

\* C7: skip(n) leaves the generator in the state reached by n successive
\* advance calls, skip(0) changes nothing, and the first value sampled after
\* skip(n) on Halton::new(s, b) is the value of index s + n.
C7_SkipIsRepeatedAdvance ==
    /\ [](status = "ok" => skip(gen, 0) = gen)
    /\ [][skipped' # skipped => gen' = advance_times(gen, skipped' - skipped)]_vars
    /\ [][(ValidArgs /\ pulls = 0 /\ pulls' = 1 /\ out'.op = "next_f64")
            => out'.val = brute_force(args.i + skipped, args.b)]_vars

C7_Witness ==
    /\ ValidArgs /\ pulls = 1 /\ skipped = 4
    /\ out.op = "next_f64"
    /\ out.val = brute_force(args.i + 4, args.b)
    /\ gen.state = out.val

\* C8: as a lazy sequence the generator never ends: a pull is always possible,
\* performs exactly one advance and yields Some(new state).
C8_IteratorNeverEnds ==
    /\ [](status = "ok"
            => /\ ~advance_panics(gen, build)
               /\ Iterator_next(gen).ret.val[1] = "Some")
    /\ [][(pulls' = pulls + 1 /\ out'.op = "next")
            => /\ gen' = advance(gen)
               /\ out'.val = <<"Some", gen'.state>>]_vars

C8_Witness ==
    /\ status = "ok" /\ pulls >= 5 /\ skipped = 0
    /\ out = Ret("next", <<"Some", gen.state>>)
    /\ Len(gen.dig) >= 3

\* C9: each of next_u32, next_u64, next_f32 and next_f64 advances the index
\* by one and converts the new state: the k-th call of any mix of them on
\* Halton::new(s, b) returns the conversion of the value of index s + k - 1.
C9_TypedSamplingAdvancesOnce ==
    /\ (ValidArgs /\ skipped = 0 /\ out.op \in RngMethods)
          => out.val = Converted(out.op, brute_force(args.i + pulls - 1, args.b))
    /\ (status = "ok" /\ Advances < MaxAdvance)
          => \A m \in RngMethods :
                /\ call(m, gen).g = advance(gen)
                /\ call(m, gen).ret = Ret(m, Converted(m, advance(gen).state))

C9_Witness ==
    /\ ValidArgs /\ skipped = 0 /\ pulls = 6
    /\ args.i = 3 /\ args.b = 3
    /\ out.op = "next_u32"
    /\ out.val = to_u32(<<8, 9>>)

\* C10: the remainders stay consistent with the digits: rem[0] = 0 and
\* rem[m] = (dig[n-m] + rem[m-1]) / base for 1 <= m <= n-1, and after k
\* advances the digits and remainders of Halton::new(s, b) are those that
\* Halton::new(s + k, b) computes.
C10_RemaindersMatchDigits ==
    status = "ok"
        => LET n == Len(gen.dig)
           IN  /\ gen.rem[1] = Zero
               /\ \A m \in 1..(n - 1) :
                     gen.rem[m + 1] =
                        FDiv(FAdd(F64(gen.dig[n - m + 1]), gen.rem[m]), F64(gen.base))
               /\ args.i >= 1 /\ args.b >= 2
                     => /\ gen.dig = Halton_new(args.i + Advances, args.b).dig
                        /\ gen.rem = Halton_new(args.i + Advances, args.b).rem

C10_Witness ==
    /\ ValidArgs /\ Advances >= 4
    /\ Len(gen.dig) = 3
    /\ Len(Halton_new(args.i, args.b).dig) = 2
    /\ gen.rem[3] # Zero

\* C4: call number k (0-based, all four methods counted together) on an
\* Interleave of n >= 1 generators returns the floor(k/n)-th own value of
\* the generator at position k mod n.
C4_InterleaveOrder ==
    (ilStatus = "ok" /\ ilCalls >= 1)
        => LET k == ilCalls - 1
               n == Len(ilArgs)
               a == ilArgs[(k % n) + 1]
           IN  /\ n >= 1
               /\ ilOut.val = Converted(ilOut.op, brute_force(a.i + (k \div n), a.b))

C4_Witness ==
    /\ ilStatus = "ok"
    /\ ilArgs = <<[i |-> 1, b |-> 2], [i |-> 1, b |-> 3]>>
    /\ ilCalls = 6
    /\ ilOut = Ret("next_f64", <<1, 9>>)

\* C5: Interleave::new with an empty collection fails at construction and
\* never returns an interleaver that holds no generator.
C5_EmptyInterleaveFailsFast ==
    Len(ilArgs) = 0 => ilStatus = "panic" /\ il = NoIL

\* the start index after normalisation
NormalStart == IF args.i < 1 THEN 1 ELSE args.i

\* the base after normalisation
NormalBase == IF args.b < 2 THEN 2 ELSE args.b

\* the number the digits dig (least significant first) write in base b
RECURSIVE digits_value(_, _)
digits_value(dig, b) ==
    IF Len(dig) = 0 THEN 0 ELSE dig[1] + b * digits_value(Tail(dig), b)

RECURSIVE power(_, _)
power(b, n) == IF n = 0 THEN 1 ELSE b * power(b, n - 1)

\* the digits equal to base - 1 at the low end of g.dig
RECURSIVE trailing_full(_, _)
trailing_full(dig, b) ==
    IF Len(dig) > 0 /\ dig[1] = b - 1 THEN 1 + trailing_full(Tail(dig), b) ELSE 0

\* the positions whose non-zero digit an advance call on g sets to 0
resets(g) == {j \in 1..Len(g.dig) : g.dig[j] # 0 /\ advance(g).dig[j] = 0}

\* C11: in every reachable state len(digits) = len(remainders) >= 1, also
\* right after construction with start index 1 and after a carry that
\* appends a digit.
C11_LengthsEqualAndNonEmpty ==
    status = "ok" => Len(gen.dig) = Len(gen.rem) /\ Len(gen.dig) >= 1

C11_Witness ==
    /\ status = "ok" /\ args.i = 1 /\ args.b = 2
    /\ Advances = 4
    /\ Len(gen.dig) = 3 /\ Len(gen.rem) = 3

\* C12: in every reachable state base is >= 2 and the base fixed at
\* construction, every digit is in 0..base-1, and the digits, least
\* significant first, are the base-b expansion of s - 1 + k for the normalised
\* start index s and the number k of advances made.
C12_DigitsEncodeIndex ==
    status = "ok"
        => /\ gen.base >= 2 /\ gen.base = NormalBase
           /\ \A j \in 1..Len(gen.dig) : gen.dig[j] >= 0 /\ gen.dig[j] <= gen.base - 1
           /\ digits_value(gen.dig, gen.base) = NormalStart - 1 + Advances
           /\ Len(gen.dig) > 1 => gen.dig[Len(gen.dig)] # 0

C12_Witness ==
    /\ status = "ok" /\ args.i = 0 /\ args.b = 0
    /\ pulls >= 1 /\ skipped >= 1
    /\ gen.dig = <<1, 0, 1>>

\* C13: an advance grows the digit and the remainder vector, each by one
\* slot, exactly when every digit is base-1 before the call; then the old
\* digits become 0, the new top digit is 1 and the value is 1/base^(new
\* length), inside (0, 1); every other advance keeps both lengths, and the
\* lengths never shrink.
C13_GrowthOnlyOnFullCarry ==
    /\ [][(status = "ok" /\ pulls' = pulls + 1)
            => LET n == Len(gen.dig)
                   full == \A j \in 1..n : gen.dig[j] = gen.base - 1
               IN  /\ full <=> (Len(gen'.dig) = n + 1 /\ Len(gen'.rem) = Len(gen.rem) + 1)
                   /\ ~full => (Len(gen'.dig) = n /\ Len(gen'.rem) = Len(gen.rem))
                   /\ full => /\ \A j \in 1..n : gen'.dig[j] = 0
                              /\ gen'.dig[n + 1] = 1
                              /\ gen'.state = <<1, power(gen.base, n + 1)>>
                              /\ FLt(Zero, gen'.state) /\ FLt(gen'.state, One)]_vars
    /\ [][Len(gen'.dig) >= Len(gen.dig) /\ Len(gen'.rem) >= Len(gen.rem)]_vars

C13_Witness ==
    /\ status = "ok" /\ args.b = 3 /\ args.i = 1
    /\ pulls = 9 /\ skipped = 0
    /\ gen.dig = <<0, 0, 1>>
    /\ gen.state = <<1, 27>>

\* C15: advance is total on every reachable state: no access is out of
\* bounds, the assertions at its start hold, and no digit is incremented
\* beyond base-1.
C15_AdvanceIsTotal ==
    /\ status = "ok"
          => /\ ~advance_panics(gen, build)
             /\ LET i == trailing_full(gen.dig, gen.base)
                    len == IF i < Len(gen.dig) THEN Len(gen.rem) ELSE Len(gen.rem) + 1
                IN  i >= 1 => /\ len - i - 1 >= 0
                              /\ len - i <= len - 1
                              /\ i + 1 <= Len(advance(gen).dig)
             /\ \A j \in 1..Len(advance(gen).dig) :
                   advance(gen).dig[j] <= gen.base - 1
    /\ status = "panic" => Advances = 0

C15_Witness ==
    /\ status = "ok" /\ build.debug_assertions
    /\ Advances >= 3
    /\ gen.dig = <<1, 1>>
    /\ trailing_full(gen.dig, gen.base) = Len(gen.rem)

\* C16: advance rewrites only what the carry affects: with the lowest digit
\* below base-1 only dig[0] and state change; when the carry scan stops at
\* position i >= 1, the digits above i and the remainders below len-i are
\* unchanged; base never changes.
C16_AdvanceFrame ==
    /\ [][(status = "ok" /\ pulls' = pulls + 1)
            => LET i == trailing_full(gen.dig, gen.base)
                   len == Len(gen'.rem)
               IN  /\ i = 0 => /\ gen'.rem = gen.rem
                               /\ Len(gen'.dig) = Len(gen.dig)
                               /\ gen'.dig[1] = gen.dig[1] + 1
                               /\ \A j \in 2..Len(gen.dig) : gen'.dig[j] = gen.dig[j]
                   /\ i >= 1 => /\ \A j \in (i + 2)..Len(gen.dig) :
                                      gen'.dig[j] = gen.dig[j]
                                /\ \A m \in 0..(len - i - 1) :
                                      gen'.rem[m + 1] = gen.rem[m + 1]]_vars
    /\ [][gen'.base = gen.base]_vars

C16_Witness ==
    /\ status = "ok" /\ args.b = 2 /\ args.i = 5
    /\ pulls = 4 /\ skipped = 0
    /\ gen.dig = <<0, 0, 0, 1>>

\* how many of the next n advance calls on g reset k or more digits
RECURSIVE ripples(_, _, _)
ripples(g, n, k) ==
    IF n = 0 THEN 0
    ELSE (IF Cardinality(resets(g)) >= k THEN 1 ELSE 0) + ripples(advance(g), n - 1, k)

\* C18: carries are as rare as in a base-b counter: among any base^k
\* consecutive advance calls exactly one resets k or more digits, and an
\* advance whose lowest digit is below base-1 resets none.
C18_CarriesAreRare ==
    status = "ok"
        => /\ \A k \in 1..MaxWindow :
                 power(gen.base, k) <= MaxWindow
                    => ripples(gen, power(gen.base, k), k) = 1
           /\ gen.dig[1] < gen.base - 1 => resets(gen) = {}

C18_Witness ==
    /\ status = "ok" /\ args.b = 2 /\ args.i = 1
    /\ Advances = 8
    /\ gen.dig = <<0, 0, 0, 1>>
    /\ ripples(advance_times(Halton_new(1, 2), 1), 8, 3) = 1
    /\ Cardinality(resets(advance_times(Halton_new(1, 2), 7))) = 3

\* C14: for an Interleave built from a non-empty collection, in every
\* reachable state 0 <= current < len(generators), len(generators) is the
\* number of generators given, current is 0 after construction and becomes
\* (current + 1) mod len(generators) with each delegated call.
C14_CursorInRange ==
    /\ []((ilStatus = "ok" /\ Len(ilArgs) >= 1)
            => /\ il.current >= 0 /\ il.current < Len(il.generators)
               /\ Len(il.generators) = Len(ilArgs)
               /\ ilCalls = 0 => il.current = 0)
    /\ [][(ilCalls' = ilCalls + 1)
            => il'.current = (il.current + 1) % Len(il.generators)]_vars

C14_Witness ==
    /\ ilStatus = "ok" /\ Len(ilArgs) = 3
    /\ ilCalls = 6
    /\ il.current = 0

\* C17: the Interleave owns copies of its generators: a delegated call
\* advances the generator at the cursor by one step and leaves the other
\* owned generators and the caller's generators unchanged, and a call on a
\* caller's generator changes neither the Interleave nor what it returns.
C17_OwnedGeneratorsIndependent ==
    /\ [][(ilCalls' = ilCalls + 1)
            => /\ \A k \in 1..Len(il.generators) :
                     il'.generators[k] =
                        IF k = il.current + 1 THEN advance(il.generators[k])
                        ELSE il.generators[k]
               /\ Len(il'.generators) = Len(il.generators)
               /\ origs' = origs]_vars
    /\ [][(origCalls' = origCalls + 1) => (il' = il /\ ilOut' = ilOut)]_vars
    /\ [](ilStatus = "ok"
            => \A k \in 1..Len(il.generators) :
                  /\ il.generators[k].dig =
                        Halton_new(ilArgs[k].i
                                   + (ilCalls + Len(ilArgs) - k) \div Len(ilArgs),
                                   ilArgs[k].b).dig
                  /\ \E n \in 0..MaxCallerCalls :
                        origs[k].dig = Halton_new(ilArgs[k].i + n, ilArgs[k].b).dig)

C17_Witness ==
    /\ ilStatus = "ok" /\ Len(ilArgs) = 2
    /\ ilArgs[1] = ilArgs[2]
    /\ ilCalls = 3 /\ origCalls = 1
    /\ origs[1] = advance(Halton_new(ilArgs[1].i, ilArgs[1].b))
    /\ origs[2] = Halton_new(ilArgs[2].i, ilArgs[2].b)
    /\ il.generators[1] = advance(origs[1])
    /\ il.generators[2] = advance(origs[2])

=============================================================================
